---- MODULE Spec2Model ----
(***************************************************************************)
(* GoNetworkLibrary: the JSON-RPC client of the Go remote library.         *)
(* Model of GoNetworkLibrary._send_request and of the facade methods       *)
(* (src/migration-poc/robot-tests/GoNetworkLibrary.py).                    *)
(*                                                                         *)
(* A call is a blocking sequence of socket operations.  Each socket        *)
(* operation of a call is one step of the model, so that the calls of      *)
(* several callers interleave between their socket operations.  The code   *)
(* that runs between two socket operations (parsing, the exception         *)
(* handlers) is local to the call and belongs to the step of the socket    *)
(* operation it follows.                                                   *)
(*                                                                         *)
(* The server's answer is a sequence of bytes.  An ASCII byte is written   *)
(* as the one-character string of its character; the two bytes of the      *)
(* UTF-8 encoding of U+00FC are written "C3" and "BC".                     *)
(***************************************************************************)
EXTENDS Integers, Sequences, FiniteSets, TLC

(***************************************************************************)
(* Bounds of the model.                                                    *)
(***************************************************************************)
NumCallers == 2
MaxChunk == 2
MaxCalls == 2

Callers == 1..NumCallers

(***************************************************************************)
(* Program constants.                                                      *)
(***************************************************************************)
DefaultHost == "localhost"
DefaultPort == 8270
DefaultTimeout == 30
RecvSize == 4096

(***************************************************************************)
(* Python values as json.loads builds them: None, int, str, list, dict.    *)
(* A str is the sequence of its characters, a dict a function from its     *)
(* keys.                                                                   *)
(***************************************************************************)
JNull == [t |-> "NoneType", v |-> 0]
JInt(n) == [t |-> "int", v |-> n]
JStr(s) == [t |-> "str", v |-> s]
JList(s) == [t |-> "list", v |-> s]
JDict(f) == [t |-> "dict", v |-> f]

EmptyDict == <<>>

(***************************************************************************)
(* bytes.decode(): UTF-8 to text.  A lead byte needs its continuation      *)
(* byte; a lead byte at the end of the data or followed by something else, *)
(* or a continuation byte alone, raises UnicodeDecodeError.                *)
(***************************************************************************)
LeadBytes == {"C3"}
ContinuationBytes == {"BC"}

CodePoint(lead, cont) == "U+00FC"

\* The concatenation of pieces[lo..hi].
RECURSIVE Concat(_, _, _)
Concat(pieces, lo, hi) ==
    IF lo > hi THEN <<>>
    ELSE IF lo = hi THEN pieces[lo]
    ELSE LET mid == (lo + hi) \div 2
         IN  Concat(pieces, lo, mid) \o Concat(pieces, mid + 1, hi)

\* What is wrong with the byte at i, "" if nothing is.
Utf8Fault(b, i) ==
    IF b[i] \in LeadBytes
    THEN IF i = Len(b) THEN "unexpected end of data"
         ELSE IF b[i + 1] \notin ContinuationBytes THEN "invalid continuation byte"
         ELSE ""
    ELSE IF b[i] \in ContinuationBytes /\ (i = 1 \/ b[i - 1] \notin LeadBytes)
         THEN "invalid start byte"
         ELSE ""

\* The characters the byte at i gives: a lead byte gives the character of
\* the two bytes, its continuation byte nothing more.
Utf8Chars(b, i) ==
    IF b[i] \in LeadBytes THEN <<CodePoint(b[i], b[i + 1])>>
    ELSE IF b[i] \in ContinuationBytes THEN <<>>
    ELSE <<b[i]>>

Utf8Decode(b) ==
    LET faults == {i \in 1..Len(b) : Utf8Fault(b, i) # ""} IN
    IF faults = {}
    THEN [ok |-> TRUE, text |-> Concat([i \in 1..Len(b) |-> Utf8Chars(b, i)], 1, Len(b)),
          err |-> ""]
    ELSE LET first == CHOOSE i \in faults : \A j \in faults : i <= j
         IN  [ok |-> FALSE, text |-> <<>>, err |-> Utf8Fault(b, first)]

(***************************************************************************)
(* json.loads on text: the scanner of json.decoder / json.scanner for      *)
(* objects, arrays, strings without escapes, non-negative integers and     *)
(* null.  A result is [ok, val, pos, err]: the value and the index after   *)
(* it, or the JSONDecodeError message and its position.                    *)
(***************************************************************************)
Quote == "\""
Whitespace == {" ", "\n"}
Digits == {"0", "1", "2", "3", "4", "5", "6", "7", "8", "9"}

DigitValue(d) ==
    CASE d = "0" -> 0 [] d = "1" -> 1 [] d = "2" -> 2 [] d = "3" -> 3
      [] d = "4" -> 4 [] d = "5" -> 5 [] d = "6" -> 6 [] d = "7" -> 7
      [] d = "8" -> 8 [] d = "9" -> 9

At(t, i) == IF i >= 1 /\ i <= Len(t) THEN t[i] ELSE "EOF"

Scanned(v, p) == [ok |-> TRUE, val |-> v, pos |-> p, err |-> ""]
ScanError(m, p) == [ok |-> FALSE, val |-> JNull, pos |-> p, err |-> m]

RECURSIVE SkipWhitespace(_, _)
SkipWhitespace(t, i) ==
    IF At(t, i) \in Whitespace THEN SkipWhitespace(t, i + 1) ELSE i

RECURSIVE StringEnd(_, _)
StringEnd(t, i) ==
    IF i > Len(t) THEN 0
    ELSE IF t[i] = Quote THEN i ELSE StringEnd(t, i + 1)

RECURSIVE DigitsEnd(_, _)
DigitsEnd(t, i) ==
    IF At(t, i) \in Digits THEN DigitsEnd(t, i + 1) ELSE i

NumberEnd(t, i) == IF t[i] = "0" THEN i + 1 ELSE DigitsEnd(t, i)

RECURSIVE NumberValue(_, _, _, _)
NumberValue(t, i, j, acc) ==
    IF i >= j THEN acc ELSE NumberValue(t, i + 1, j, 10 * acc + DigitValue(t[i]))

NullLiteral == <<"n", "u", "l", "l">>

RECURSIVE ScanOnce(_, _), JSONObject(_, _, _), JSONArray(_, _, _)

ScanString(t, i) ==
    LET e == StringEnd(t, i + 1) IN
    IF e = 0 THEN ScanError("Unterminated string starting at", i)
    ELSE Scanned(JStr(SubSeq(t, i + 1, e - 1)), e + 1)

ScanOnce(t, i) ==
    LET ch == At(t, i) IN
    CASE ch = Quote -> ScanString(t, i)
      [] ch = "{" ->
            LET j == SkipWhitespace(t, i + 1) IN
            IF At(t, j) = "}" THEN Scanned(JDict(EmptyDict), j + 1)
            ELSE JSONObject(t, j, EmptyDict)
      [] ch = "[" ->
            LET j == SkipWhitespace(t, i + 1) IN
            IF At(t, j) = "]" THEN Scanned(JList(<<>>), j + 1)
            ELSE JSONArray(t, j, <<>>)
      [] ch = "n" ->
            IF i + 3 <= Len(t) /\ SubSeq(t, i, i + 3) = NullLiteral
            THEN Scanned(JNull, i + 4)
            ELSE ScanError("Expecting value", i)
      [] ch \in Digits ->
            LET e == NumberEnd(t, i) IN Scanned(JInt(NumberValue(t, i, e, 0)), e)
      [] OTHER -> ScanError("Expecting value", i)

JSONObject(t, i, pairs) ==
    IF At(t, i) # Quote
    THEN ScanError("Expecting property name enclosed in double quotes", i)
    ELSE LET k == ScanString(t, i) IN
         IF ~k.ok THEN k
         ELSE LET c == SkipWhitespace(t, k.pos) IN
              IF At(t, c) # ":" THEN ScanError("Expecting ':' delimiter", c)
              ELSE LET v == ScanOnce(t, SkipWhitespace(t, c + 1)) IN
                   IF ~v.ok THEN v
                   ELSE LET more == (k.val.v :> v.val) @@ pairs
                            d == SkipWhitespace(t, v.pos)
                        IN  IF At(t, d) = "}" THEN Scanned(JDict(more), d + 1)
                            ELSE IF At(t, d) # ","
                                 THEN ScanError("Expecting ',' delimiter", d)
                                 ELSE JSONObject(t, SkipWhitespace(t, d + 1), more)

JSONArray(t, i, values) ==
    LET v == ScanOnce(t, i) IN
    IF ~v.ok THEN v
    ELSE LET more == Append(values, v.val)
             d == SkipWhitespace(t, v.pos)
         IN  IF At(t, d) = "]" THEN Scanned(JList(more), d + 1)
             ELSE IF At(t, d) # ","
                  THEN ScanError("Expecting ',' delimiter", d)
                  ELSE JSONArray(t, SkipWhitespace(t, d + 1), more)

JsonLoads(t) ==
    LET r == ScanOnce(t, SkipWhitespace(t, 1)) IN
    IF ~r.ok THEN r
    ELSE LET e == SkipWhitespace(t, r.pos) IN
         IF e # Len(t) + 1 THEN ScanError("Extra data", e) ELSE r

(***************************************************************************)
(* Exceptions: [type, msg, detail].  The text of an f-string message is    *)
(* kept as its fixed prefix (msg) and the value formatted into it          *)
(* (detail).                                                               *)
(***************************************************************************)
NoException == [type |-> "none", msg |-> "", detail |-> JNull]
SocketTimeout == [type |-> "socket.timeout", msg |-> "timed out", detail |-> JNull]
OSError(errno) == [type |-> "OSError", msg |-> errno, detail |-> JNull]
JSONDecodeError(m, p) == [type |-> "JSONDecodeError", msg |-> m, detail |-> JInt(p - 1)]
UnicodeDecodeError(m) == [type |-> "UnicodeDecodeError", msg |-> m, detail |-> JNull]
AttributeError(t) == [type |-> "AttributeError", msg |-> "object has no attribute 'get'", detail |-> JStr(<<t>>)]
PyException(m, d) == [type |-> "Exception", msg |-> m, detail |-> d]

(***************************************************************************)
(* How a piece of code ends: it returns a value or raises an exception.    *)
(***************************************************************************)
NoResult == [kind |-> "none", val |-> JNull]
Returns(v) == [kind |-> "return", val |-> v]
Raises(e) == [kind |-> "raise", val |-> e]

(***************************************************************************)
(* json.loads(response_data.decode()), lines 54 and 62.                    *)
(***************************************************************************)
Loads(b) ==
    LET d == Utf8Decode(b) IN
    IF ~d.ok THEN Raises(UnicodeDecodeError(d.err))
    ELSE LET r == JsonLoads(d.text) IN
         IF r.ok THEN Returns(r.val) ELSE Raises(JSONDecodeError(r.err, r.pos))

(***************************************************************************)
(* dict.get(key, default).                                                 *)
(***************************************************************************)
Get(d, key, default) == IF key \in DOMAIN d.v THEN d.v[key] ELSE default

StatusKey == <<"s", "t", "a", "t", "u", "s">>
ReturnKey == <<"r", "e", "t", "u", "r", "n">>
ErrorKey == <<"e", "r", "r", "o", "r">>
PASS == <<"P", "A", "S", "S">>
UnknownError == <<"U", "n", "k", "n", "o", "w", "n", " ", "e", "r", "r", "o", "r">>

(***************************************************************************)
(* Lines 64-68: the status of the parsed response decides.  A response     *)
(* that is not a dict has no get.                                          *)
(***************************************************************************)
\* The mutation of Interpret: the return field is returned whatever the
\* status is.
InterpretAnyStatus(response) ==
    IF response.t # "dict" THEN Raises(AttributeError(response.t))
    ELSE Returns(Get(response, ReturnKey, JNull))

Interpret(response) ==
    IF response.t # "dict" THEN Raises(AttributeError(response.t))
    ELSE IF Get(response, StatusKey, JNull) = JStr(PASS)
         THEN Returns(Get(response, ReturnKey, JNull))
         ELSE Raises(PyException("Go server error", Get(response, ErrorKey, JStr(UnknownError))))

(***************************************************************************)
(* Lines 62-68: parse the accumulated bytes and interpret them.            *)
(***************************************************************************)
Decode(b) ==
    LET r == Loads(b) IN
    IF r.kind = "raise" THEN r ELSE Interpret(r.val)

(***************************************************************************)
(* Lines 25-35: args and kwargs default to [] and {}; the request is the   *)
(* dict {"method": ..., "args": ..., "kwargs": ...}.  A dict literal keeps *)
(* the order of its keys: the request is the sequence of its items.        *)
(***************************************************************************)
MethodKey == <<"m", "e", "t", "h", "o", "d">>
ArgsKey == <<"a", "r", "g", "s">>
KwargsKey == <<"k", "w", "a", "r", "g", "s">>

IfNone(x, default) == IF x = JNull THEN default ELSE x

BuildRequest(method, args, kwargs) ==
    << <<MethodKey, JStr(method)>>,
       <<ArgsKey, IfNone(args, JList(<<>>))>>,
       <<KwargsKey, IfNone(kwargs, JDict(EmptyDict))>> >>

(***************************************************************************)
(* json.dumps(request), line 43: the default separators ", " and ": ",     *)
(* ensure_ascii (a character outside ASCII is written as its \u escape),   *)
(* the items of a dict in their order.  The items of a dict that was       *)
(* parsed are a function of the model and are written in a fixed order.    *)
(***************************************************************************)
DigitChar(n) == CHOOSE d \in Digits : DigitValue(d) = n

RECURSIVE IntChars(_)
IntChars(n) ==
    IF n < 10 THEN <<DigitChar(n)>> ELSE Append(IntChars(n \div 10), DigitChar(n % 10))

EscapeChar(ch) ==
    CASE ch = "U+00FC" -> <<"\\", "u", "0", "0", "f", "c">>
      [] ch = Quote -> <<"\\", Quote>>
      [] ch = "\\" -> <<"\\", "\\">>
      [] OTHER -> <<ch>>

Escaped(chars) == Concat([i \in 1..Len(chars) |-> EscapeChar(chars[i])], 1, Len(chars))

ItemSeparator == <<",", " ">>
KeySeparator == <<":", " ">>

RECURSIVE ItemsOf(_)
ItemsOf(f) ==
    IF DOMAIN f = {} THEN <<>>
    ELSE LET k == CHOOSE x \in DOMAIN f : TRUE
         IN  <<<<k, f[k]>>>> \o ItemsOf([x \in DOMAIN f \ {k} |-> f[x]])

RECURSIVE Dumps(_), DumpsList(_, _), DumpsItems(_, _)

Dumps(v) ==
    CASE v.t = "NoneType" -> NullLiteral
      [] v.t = "int" -> IntChars(v.v)
      [] v.t = "str" -> <<Quote>> \o Escaped(v.v) \o <<Quote>>
      [] v.t = "list" -> <<"[">> \o DumpsList(v.v, 1) \o <<"]">>
      [] v.t = "dict" -> <<"{">> \o DumpsItems(ItemsOf(v.v), 1) \o <<"}">>

DumpsList(values, i) ==
    IF i > Len(values) THEN <<>>
    ELSE (IF i > 1 THEN ItemSeparator ELSE <<>>)
             \o Dumps(values[i]) \o DumpsList(values, i + 1)

DumpsItems(items, i) ==
    IF i > Len(items) THEN <<>>
    ELSE (IF i > 1 THEN ItemSeparator ELSE <<>>)
             \o <<Quote>> \o Escaped(items[i][1]) \o <<Quote>> \o KeySeparator
             \o Dumps(items[i][2]) \o DumpsItems(items, i + 1)

JsonDumps(request) == <<"{">> \o DumpsItems(request, 1) \o <<"}">>

(***************************************************************************)
(* str.encode(): text to UTF-8.                                            *)
(***************************************************************************)
Utf8Bytes(ch) == IF ch = "U+00FC" THEN <<"C3", "BC">> ELSE <<ch>>

Utf8Encode(text) == Concat([i \in 1..Len(text) |-> Utf8Bytes(text[i])], 1, Len(text))

(***************************************************************************)
(* Line 43: json.dumps(request).encode() + b'\n'.                          *)
(***************************************************************************)
Newline == "\n"

RequestBytes(request) == Append(Utf8Encode(JsonDumps(request)), Newline)

(***************************************************************************)
(* The facade methods, lines 80-159: each one forwards to _send_request    *)
(* with "run_keyword", [keyword, [arguments]] and {}.                      *)
(***************************************************************************)
RunKeywordMethod == <<"r", "u", "n", "_", "k", "e", "y", "w", "o", "r", "d">>
ConnectToDevice ==
    <<"C", "o", "n", "n", "e", "c", "t", " ", "T", "o", " ", "D", "e", "v",
      "i", "c", "e">>
ExecuteCommand ==
    <<"E", "x", "e", "c", "u", "t", "e", " ", "C", "o", "m", "m", "a", "n",
      "d">>
GetOSPFNeighbors ==
    <<"G", "e", "t", " ", "O", "S", "P", "F", " ", "N", "e", "i", "g", "h",
      "b", "o", "r", "s">>
GetBGPSummary ==
    <<"G", "e", "t", " ", "B", "G", "P", " ", "S", "u", "m", "m", "a", "r",
      "y">>
GetInterfaceStatus ==
    <<"G", "e", "t", " ", "I", "n", "t", "e", "r", "f", "a", "c", "e", " ",
      "S", "t", "a", "t", "u", "s">>
PingTest == <<"P", "i", "n", "g", " ", "T", "e", "s", "t">>
CloseConnection ==
    <<"C", "l", "o", "s", "e", " ", "C", "o", "n", "n", "e", "c", "t", "i",
      "o", "n">>

\* The mutation of RunKeyword: the arguments follow the keyword in one
\* flat list.
RunKeywordFlat(keyword, arguments) ==
    BuildRequest(RunKeywordMethod, JList(<<JStr(keyword)>> \o arguments), JDict(EmptyDict))

RunKeyword(keyword, arguments) ==
    BuildRequest(RunKeywordMethod, JList(<<JStr(keyword), JList(arguments)>>), JDict(EmptyDict))

connect_to_device(hostname, device_type, username, password) ==
    RunKeyword(ConnectToDevice, <<hostname, device_type, username, password>>)
execute_command(handle, command) ==
    RunKeyword(ExecuteCommand, <<handle, command>>)
get_ospf_neighbors(handle) ==
    RunKeyword(GetOSPFNeighbors, <<handle>>)
get_bgp_summary(handle, vrf) ==
    RunKeyword(GetBGPSummary, <<handle, vrf>>)
get_interface_status(handle, interface) ==
    RunKeyword(GetInterfaceStatus, <<handle, interface>>)
ping_test(handle, target, vrf, count) ==
    RunKeyword(PingTest, <<handle, target, vrf, count>>)
close_connection(handle) ==
    RunKeyword(CloseConnection, <<handle>>)

Default == <<"d", "e", "f", "a", "u", "l", "t">>

DefaultVrf == JStr(Default)
DefaultCount == JInt(5)

Facades ==
    {"connect_to_device", "execute_command", "get_ospf_neighbors", "get_bgp_summary",
     "get_interface_status", "ping_test", "close_connection"}

(***************************************************************************)
(* A call of a facade method: the method and the arguments the caller      *)
(* gives.  A parameter the caller leaves out takes its default.            *)
(***************************************************************************)
Arg(given, i, default) == IF i <= Len(given) THEN given[i] ELSE default

FacadeCall(call) ==
    LET a == call.given IN
    CASE call.method = "connect_to_device" -> connect_to_device(a[1], a[2], a[3], a[4])
      [] call.method = "execute_command" -> execute_command(a[1], a[2])
      [] call.method = "get_ospf_neighbors" -> get_ospf_neighbors(a[1])
      [] call.method = "get_bgp_summary" -> get_bgp_summary(a[1], Arg(a, 2, DefaultVrf))
      [] call.method = "get_interface_status" -> get_interface_status(a[1], a[2])
      [] call.method = "ping_test" ->
            ping_test(a[1], a[2], Arg(a, 3, DefaultVrf), Arg(a, 4, DefaultCount))
      [] call.method = "close_connection" -> close_connection(a[1])

(***************************************************************************)
(* The calls the callers of the model make.                                *)
(***************************************************************************)
H1 == JStr(<<"h", "1">>)
DeviceType == JStr(<<"A", "S", "R", "9", "9", "0", "6">>)
Admin == JStr(<<"a", "d", "m", "i", "n">>)
ShowVersion == JStr(<<"s", "h", "o", "w", " ", "v", "e", "r", "s", "i", "o", "n">>)
Interface == JStr(<<"G", "i", "0", "/", "0", "/", "0", "/", "0">>)
Target == JStr(<<"8", ".", "8", ".", "8", ".", "8">>)
Mgmt == JStr(<<"m", "g", "m", "t">>)

Invoke(method, given) == [method |-> method, given |-> given]

PingDefaults == Invoke("ping_test", <<H1, Target>>)

FacadeCalls ==
    {Invoke("connect_to_device", <<H1, DeviceType, Admin, Admin>>),
     Invoke("execute_command", <<H1, ShowVersion>>),
     Invoke("get_ospf_neighbors", <<H1>>),
     Invoke("get_bgp_summary", <<H1>>),
     Invoke("get_bgp_summary", <<H1, Mgmt>>),
     Invoke("get_interface_status", <<H1, Interface>>),
     PingDefaults,
     Invoke("ping_test", <<H1, Target, Mgmt>>),
     Invoke("ping_test", <<H1, Target, Mgmt, JInt(3)>>),
     Invoke("close_connection", <<H1>>)}

(***************************************************************************)
(* What the server sends on one connection before it closes it.            *)
(***************************************************************************)
Str(chars) == <<Quote>> \o chars \o <<Quote>>

PassDoc(x) ==
    <<"{">> \o Str(StatusKey) \o <<":">> \o Str(PASS) \o <<",">>
            \o Str(ReturnKey) \o <<":">> \o x \o <<"}">>

FAIL == <<"F", "A", "I", "L">>
Boom == <<"b", "o", "o", "m">>

FailDoc(e) ==
    <<"{">> \o Str(StatusKey) \o <<":">> \o Str(FAIL) \o <<",">>
            \o Str(ErrorKey) \o <<":">> \o e \o <<"}">>

RetInt == <<"5">>
RetNull == NullLiteral
RetList == <<"[", "1", ",", "[", "2", "]", "]">>
RetDict == <<"{">> \o Str(<<"a">>) \o <<":", "{">> \o Str(<<"b">>) \o <<":", "5", "}", "}">>
RetStr == Str(<<"C3", "BC">>)

ReturnDocs == {RetInt, RetNull, RetList, RetDict, RetStr}

PassDocs == {PassDoc(x) : x \in ReturnDocs}

FailBoom == FailDoc(Str(Boom))
FailNoError == <<"{">> \o Str(StatusKey) \o <<":">> \o Str(FAIL) \o <<"}">>
NoStatus == <<"{", "}">>
Truncated == <<"{">> \o Str(StatusKey) \o <<":">>
NoBytes == <<>>
NumberDoc == <<"5", "7">>
TrailingBytes == PassDoc(RetInt) \o <<"x">>

Responses ==
    PassDocs \cup {FailBoom, FailNoError, NoStatus, Truncated, NoBytes, NumberDoc,
                  TrailingBytes}

(***************************************************************************)
(* With several callers the server answers the connection of caller c      *)
(* with the return value c.                                                *)
(***************************************************************************)
DigitOf(n) ==
    CASE n = 1 -> "1" [] n = 2 -> "2" [] n = 3 -> "3" [] n = 4 -> "4" [] OTHER -> "9"

ConcResponse(c) == PassDoc(<<DigitOf(c)>>)

(***************************************************************************)
(* State.  Everything but self belongs to one caller's call.               *)
(***************************************************************************)
VARIABLES
    self,           \* the library object: host, port, timeout (lines 19-21)
    pc,             \* where each caller's call stands
    op,             \* the facade call the caller makes
    resp,           \* the bytes the server sends on the call's connection
    wire,           \* the bytes of resp that no recv has returned yet
    request,        \* the request of the call (lines 31-35)
    sent,           \* the bytes of each sendall on the call's connection
    sock,           \* the call's socket: its state and the number of close() calls
    response_data,  \* the call's accumulation buffer (line 46)
    result,         \* how the call ended: the value returned or the exception raised
    raised,         \* the first exception raised in the try block, and where
    eof,            \* whether a recv of the call returned no bytes
    swallowed,      \* whether the close() of the finally block raised
    order,          \* the steps of the call in the order they were made
    todo            \* the number of calls the caller has still to start

vars == <<self, pc, op, resp, wire, request, sent, sock, response_data, result,
          raised, eof, swallowed, order, todo>>

NoSocket == [state |-> "none", closes |-> 0]
NotRaised == [exc |-> NoException, at |-> "none"]
NoRequest == <<>>

(***************************************************************************)
(* __init__, lines 17-21.                                                  *)
(***************************************************************************)
NewLibrary(host, port) == [host |-> host, port |-> port, timeout |-> DefaultTimeout]

InitCalls(calling, facades, answer, calls) ==
    /\ self = NewLibrary(DefaultHost, DefaultPort)
    /\ pc = [c \in Callers |-> IF c \in calling THEN "idle" ELSE "off"]
    /\ op \in [Callers -> facades]
    /\ \A c \in Callers : c \notin calling => op[c] = PingDefaults
    /\ resp \in [Callers -> UNION {answer[c] : c \in Callers}]
    /\ \A c \in Callers : resp[c] \in answer[c]
    /\ \A c \in Callers : c \notin calling => resp[c] = ConcResponse(c)
    /\ wire = [c \in Callers |-> <<>>]
    /\ request = [c \in Callers |-> NoRequest]
    /\ sent = [c \in Callers |-> <<>>]
    /\ sock = [c \in Callers |-> NoSocket]
    /\ response_data = [c \in Callers |-> <<>>]
    /\ result = [c \in Callers |-> NoResult]
    /\ raised = [c \in Callers |-> NotRaised]
    /\ eof = [c \in Callers |-> FALSE]
    /\ swallowed = [c \in Callers |-> FALSE]
    /\ order = [c \in Callers |-> <<>>]
    /\ todo = [c \in Callers |-> IF c \in calling THEN calls ELSE 0]

AnyResponse == [c \in Callers |-> Responses \cup {ConcResponse(c)}]
OwnResponse == [c \in Callers |-> {ConcResponse(c)}]

(***************************************************************************)
(* One caller making MaxCalls calls one after the other on the object,     *)
(* any facade method, any answer of the server.                            *)
(***************************************************************************)
Init == InitCalls({1}, FacadeCalls, AnyResponse, MaxCalls)

(***************************************************************************)
(* Every caller makes one call; the server answers each connection with    *)
(* its own PASS response.                                                  *)
(***************************************************************************)
InitConc == InitCalls(Callers, {PingDefaults}, OwnResponse, 1)

(***************************************************************************)
(* socket.close(): the handle is released whether or not close() raises.   *)
(***************************************************************************)
SockClose(s) == [s EXCEPT !.state = "closed", !.closes = @ + 1]

CloseResults == {"ok", "error"}
CloseError == OSError("EIO")

(***************************************************************************)
(* Lines 70-73: the handlers of the try block.                             *)
(***************************************************************************)
HandlersCatchAllFirst(e) == PyException("Connection error", e)

ExceptHandlers(e) ==
    IF e.type = "socket.timeout"
    THEN PyException("Timeout connecting to", <<self.host, self.port>>)
    ELSE PyException("Connection error", e)

(***************************************************************************)
(* Lines 74-78: the finally block closes the socket and swallows what      *)
(* close() raises; the pending return or exception stays.                  *)
(***************************************************************************)
FinallyWithoutClose(s) == s

Finally(s) == SockClose(s)

PropagateCloseError(pending, closeResult) ==
    IF closeResult = "error" THEN Raises(CloseError) ELSE pending

SwallowCloseError(pending, closeResult) == pending

(***************************************************************************)
(* Line 51: response_data += chunk, on the call's own buffer.              *)
(***************************************************************************)
AccumulateShared(c, chunk) == response_data[1] \o chunk

Accumulate(c, chunk) == response_data[c] \o chunk

Min(a, b) == IF a < b THEN a ELSE b

Logged(c, steps) == [order EXCEPT ![c] = @ \o steps]

(***************************************************************************)
(* No statement of _send_request or of a facade method assigns an          *)
(* attribute of self: the object after a call is the object before it.     *)
(***************************************************************************)
\* The mutation of SelfAfterCall: the call keeps its outcome on the object.
SelfKeepsOutcome(object, outcome) ==
    [host |-> object.host, port |-> object.port, timeout |-> object.timeout,
     last |-> outcome.kind]

SelfAfterCall(object, outcome) == object

(***************************************************************************)
(* The way out of the call: the finally block, then the return or the      *)
(* exception reaches the caller and the frame of the call is gone.  The    *)
(* facade method hands the same outcome to its caller (result =            *)
(* self._send_request(...); return result).  The model keeps the buffer    *)
(* the read loop ended with, the one line 62 decodes, and drops the        *)
(* buffer of a call that left the loop by an exception.                    *)
(***************************************************************************)
Leave(c, s, pending, steps, closeResult) ==
    /\ sock' = [sock EXCEPT ![c] = Finally(s)]
    /\ swallowed' = [swallowed EXCEPT ![c] = (closeResult = "error")]
    /\ result' = [result EXCEPT ![c] = SwallowCloseError(pending, closeResult)]
    /\ order' = Logged(c, steps \o <<"release">>)
    /\ response_data' = [response_data EXCEPT ![c] = IF pc[c] = "close" THEN @ ELSE <<>>]
    /\ wire' = [wire EXCEPT ![c] = <<>>]
    /\ self' = SelfAfterCall(self, pending)
    /\ pc' = [pc EXCEPT ![c] = "done"]

(***************************************************************************)
(* An exception e raised in the try block at step at: the handlers         *)
(* replace it, then the call leaves.                                       *)
(***************************************************************************)
Fail(c, s, e, at, steps, closeResult) ==
    /\ raised' = [raised EXCEPT ![c] = [exc |-> e, at |-> at]]
    /\ Leave(c, s, Raises(ExceptHandlers(e)), steps, closeResult)

(***************************************************************************)
(* A caller calls a facade method, for the first time or after its         *)
(* previous call ended.  Its first call is the one chosen at the start; a  *)
(* later call is any facade call, answered by any response.  Lines 25-39:  *)
(* the request is built, the socket created, its timeout set.  Nothing of  *)
(* the previous call is left but the object.                               *)
(***************************************************************************)
SendRequest(c) ==
    /\ pc[c] \in {"idle", "done"}
    /\ todo[c] > 0
    /\ \E call \in IF pc[c] = "idle" THEN {op[c]} ELSE FacadeCalls,
          answer \in IF pc[c] = "idle" THEN {resp[c]} ELSE Responses :
            /\ op' = [op EXCEPT ![c] = call]
            /\ resp' = [resp EXCEPT ![c] = answer]
            /\ request' = [request EXCEPT ![c] = FacadeCall(call)]
            /\ wire' = [wire EXCEPT ![c] = answer]
    /\ todo' = [todo EXCEPT ![c] = @ - 1]
    /\ sock' = [sock EXCEPT ![c] = [state |-> "open", closes |-> 0]]
    /\ sent' = [sent EXCEPT ![c] = <<>>]
    /\ response_data' = [response_data EXCEPT ![c] = <<>>]
    /\ result' = [result EXCEPT ![c] = NoResult]
    /\ raised' = [raised EXCEPT ![c] = NotRaised]
    /\ eof' = [eof EXCEPT ![c] = FALSE]
    /\ swallowed' = [swallowed EXCEPT ![c] = FALSE]
    /\ order' = [order EXCEPT ![c] = <<>>]
    /\ pc' = [pc EXCEPT ![c] = "connect"]
    /\ UNCHANGED self

(***************************************************************************)
(* Line 42: sock.connect.                                                  *)
(***************************************************************************)
ConnectFailures == {SocketTimeout, OSError("ECONNREFUSED")}

Connect(c) ==
    /\ pc[c] = "connect"
    /\ pc' = [pc EXCEPT ![c] = "send"]
    /\ order' = Logged(c, <<"connect">>)
    /\ UNCHANGED <<self, op, resp, wire, request, sent, sock, response_data, result,
                   raised, eof, swallowed, todo>>

ConnectFails(c) ==
    /\ pc[c] = "connect"
    /\ \E e \in ConnectFailures, r \in CloseResults :
          Fail(c, sock[c], e, "connect", <<"connect">>, r)
    /\ UNCHANGED <<op, resp, request, sent, eof, todo>>

(***************************************************************************)
(* Line 43: sock.sendall of the request; line 46: the buffer starts empty. *)
(***************************************************************************)
SendFailures == {SocketTimeout, OSError("EPIPE")}

Send(c) ==
    /\ pc[c] = "send"
    /\ sent' = [sent EXCEPT ![c] = Append(@, RequestBytes(request[c]))]
    /\ response_data' = [response_data EXCEPT ![c] = <<>>]
    /\ pc' = [pc EXCEPT ![c] = "recv"]
    /\ order' = Logged(c, <<"write">>)
    /\ UNCHANGED <<self, op, resp, wire, request, sock, result, raised, eof, swallowed,
                   todo>>

SendFails(c) ==
    /\ pc[c] = "send"
    /\ \E e \in SendFailures, r \in CloseResults :
          Fail(c, sock[c], e, "write", <<"write">>, r)
    /\ UNCHANGED <<op, resp, request, sent, eof, todo>>

(***************************************************************************)
(* Lines 47-57: one turn of the read loop.  recv returns a non-empty       *)
(* prefix of the bytes that are on their way, at most RecvSize of them;    *)
(* it returns no bytes once the server has sent everything and closed.     *)
(* After every chunk the whole buffer is decoded and parsed (line 54): a   *)
(* value ends the loop, a JSONDecodeError continues it, and any other      *)
(* exception (the UnicodeDecodeError of decode()) leaves the try block.    *)
(* The model lets a recv return up to MaxChunk bytes, or all the bytes     *)
(* that are left: every split point of the answer is reached, and so is    *)
(* its delivery in one piece.  An empty chunk ends the loop (line 49).     *)
(***************************************************************************)
ChunkSizes(n) == {k \in 1..Min(n, RecvSize) : k <= MaxChunk \/ k = n}

RecvFailures == {SocketTimeout, OSError("ECONNRESET")}

\* The mutation of LoopEnds: the loop reads on until recv returns no bytes.
LoopEndsAtEof(parsed) == FALSE

\* Lines 54-55: the loop ends when the buffer parses.
LoopEnds(parsed) == parsed.kind = "return"

ReadStep(c) == IF order[c] # <<>> /\ order[c][Len(order[c])] = "read" THEN <<>> ELSE <<"read">>

Recv(c) ==
    /\ pc[c] = "recv"
    /\ IF wire[c] = <<>>
       THEN /\ eof' = [eof EXCEPT ![c] = TRUE]
            /\ pc' = [pc EXCEPT ![c] = "close"]
            /\ order' = Logged(c, ReadStep(c))
            /\ UNCHANGED <<self, wire, response_data, sock, result, raised, swallowed>>
       ELSE /\ \E k \in ChunkSizes(Len(wire[c])) :
                  LET data == Accumulate(c, SubSeq(wire[c], 1, k))
                      parsed == Loads(data)
                  IN  IF parsed.kind = "raise" /\ parsed.val.type # "JSONDecodeError"
                      THEN \E r \in CloseResults :
                              Fail(c, sock[c], parsed.val, "frame", ReadStep(c), r)
                      ELSE /\ wire' = [wire EXCEPT ![c] = SubSeq(@, k + 1, Len(@))]
                           /\ response_data' = [response_data EXCEPT ![c] = data]
                           /\ pc' = [pc EXCEPT ![c] =
                                        IF LoopEnds(parsed) THEN "close" ELSE "recv"]
                           /\ order' = Logged(c, ReadStep(c))
                           /\ UNCHANGED <<self, sock, result, raised, swallowed>>
            /\ UNCHANGED eof
    /\ UNCHANGED <<op, resp, request, sent, todo>>

RecvFails(c) ==
    /\ pc[c] = "recv"
    /\ \E e \in RecvFailures, r \in CloseResults :
          Fail(c, sock[c], e, "read", ReadStep(c), r)
    /\ UNCHANGED <<op, resp, request, sent, eof, todo>>

(***************************************************************************)
(* Line 59: sock.close() inside the try block, then lines 62-68.           *)
(***************************************************************************)
CloseAndDecode(c) ==
    /\ pc[c] = "close"
    /\ \E r \in CloseResults :
          LET decoded == Decode(response_data[c]) IN
          IF decoded.kind = "raise"
          THEN Fail(c, SockClose(sock[c]), decoded.val, "decode", <<"release", "decode">>, r)
          ELSE /\ Leave(c, SockClose(sock[c]), decoded, <<"release", "decode">>, r)
               /\ UNCHANGED raised
    /\ UNCHANGED <<op, resp, request, sent, eof, todo>>

CloseFails(c) ==
    /\ pc[c] = "close"
    /\ \E r \in CloseResults :
          Fail(c, SockClose(sock[c]), CloseError, "close", <<"release">>, r)
    /\ UNCHANGED <<op, resp, request, sent, eof, todo>>

Next ==
    \E c \in Callers :
        \/ SendRequest(c)
        \/ Connect(c)
        \/ ConnectFails(c)
        \/ Send(c)
        \/ SendFails(c)
        \/ Recv(c)
        \/ RecvFails(c)
        \/ CloseAndDecode(c)
        \/ CloseFails(c)

Spec == Init /\ [][Next]_vars

SpecConc == InitConc /\ [][Next]_vars

(***************************************************************************)
(* The socket operations of a call in progress block until they complete,  *)
(* fail or time out (settimeout, line 39): a call that has begun takes its *)
(* next step.  Nothing makes a caller begin a call.                        *)
(***************************************************************************)
Progress(c) ==
    \/ ConnectFails(c)
    \/ SendFails(c)
    \/ RecvFails(c)
    \/ CloseFails(c)
    \/ Connect(c)
    \/ Send(c)
    \/ Recv(c)
    \/ CloseAndDecode(c)

SpecLive == Init /\ [][Next]_vars /\ \A c \in Callers : WF_vars(Progress(c))

(***************************************************************************)
(* Vocabulary of the properties.                                           *)
(***************************************************************************)
Done(c) == pc[c] = "done"

\* The failure classes of the specification, read off the exception that
\* reaches the caller: its message for the three messages the client
\* writes, its type for a parse error that reaches the caller as such.
Classify(e) ==
    CASE e.type \in {"JSONDecodeError", "UnicodeDecodeError"} -> "ProtocolFailure"
      [] e.type = "Exception" /\ e.msg = "Timeout connecting to" -> "Timeout"
      [] e.type = "Exception" /\ e.msg = "Connection error" -> "ConnectionFailure"
      [] e.type = "Exception" /\ e.msg = "Go server error" -> "RemoteFailure"
      [] OTHER -> "Unclassified"

\* The value each return document of the model stands for.
ReturnValue(x) ==
    CASE x = RetInt -> JInt(5)
      [] x = RetNull -> JNull
      [] x = RetList -> JList(<<JInt(1), JList(<<JInt(2)>>)>>)
      [] x = RetDict -> JDict(<<"a">> :> JDict(<<"b">> :> JInt(5)))
      [] x = RetStr -> JStr(<<"U+00FC">>)
      [] OTHER -> JInt(DigitValue(x[1]))

IsPrefix(p, q) == Len(p) <= Len(q) /\ p = SubSeq(q, 1, Len(p))

Count(log, step) == Cardinality({i \in 1..Len(log) : log[i] = step})

\* The socket operations of the call that raised before the response was
\* decoded.
SocketSteps == {"connect", "write", "read", "close"}

StepRank(step) ==
    CASE step = "connect" -> 1
      [] step = "write" -> 2
      [] step = "read" -> 3
      [] step = "decode" -> 4
      [] step = "release" -> 5

(***************************************************************************)
(* C1.  Every call that created its socket has closed it when it returns   *)
(* or raises, whatever the way it ended.                                   *)
(***************************************************************************)
C1_SocketClosedOnExit ==
    \A c \in Callers : Done(c) => sock[c].state = "closed"

C1_Witness ==
    \E c \in Callers :
        /\ Done(c)
        /\ raised[c].at = "read"
        /\ raised[c].exc = SocketTimeout
        /\ result[c].kind = "raise"
        /\ sock[c].state = "closed"

(***************************************************************************)
(* C2.  A call whose server sent a complete PASS response with return      *)
(* field X, and none of whose socket operations failed, returns exactly    *)
(* the value of X.                                                         *)
(***************************************************************************)
C2_PassReturnsValue ==
    \A c \in Callers : \A x \in ReturnDocs :
        (Done(c) /\ resp[c] = PassDoc(x) /\ raised[c].at \notin SocketSteps)
            => result[c] = Returns(ReturnValue(x))

(***************************************************************************)
(* C3.  A call whose response {"status":"FAIL","error":"boom"} was         *)
(* received and decoded fails with the RemoteFailure carrying "boom", and  *)
(* that failure is classified RemoteFailure.                               *)
(***************************************************************************)
C3_RemoteFailureReachesCaller ==
    \A c \in Callers :
        (Done(c) /\ resp[c] = FailBoom /\ raised[c].at = "decode")
            => /\ result[c].kind = "raise"
               /\ Classify(result[c].val) = "RemoteFailure"
               /\ result[c].val.detail = JStr(Boom)

(***************************************************************************)
(* C4.  A call whose recv returned no bytes before the buffer parsed as a  *)
(* JSON document (and whose close did not fail) raises a failure           *)
(* classified ProtocolFailure and returns no value.                        *)
(***************************************************************************)
C4_PeerClosedIsProtocolFailure ==
    \A c \in Callers :
        (Done(c) /\ eof[c] /\ raised[c].at = "decode")
            => /\ result[c].kind = "raise"
               /\ Classify(result[c].val) = "ProtocolFailure"

(***************************************************************************)
(* C5.  A timeout of connect, sendall or recv ends the call with the       *)
(* Timeout failure carrying host and port; a connect or write failure      *)
(* that is not a timeout ends it with the ConnectionFailure carrying the   *)
(* cause.                                                                  *)
(***************************************************************************)
C5_TimeoutAndConnectionFailure ==
    \A c \in Callers :
        Done(c) =>
            /\ (raised[c].exc = SocketTimeout /\ raised[c].at \in {"connect", "write", "read"})
                  => /\ result[c].kind = "raise"
                     /\ Classify(result[c].val) = "Timeout"
                     /\ result[c].val.detail = <<self.host, self.port>>
            /\ (raised[c].exc.type = "OSError" /\ raised[c].at \in {"connect", "write"})
                  => /\ result[c].kind = "raise"
                     /\ Classify(result[c].val) = "ConnectionFailure"
                     /\ result[c].val.detail = raised[c].exc

C5_Witness ==
    \E c \in Callers :
        /\ Done(c)
        /\ raised[c] = [exc |-> SocketTimeout, at |-> "write"]
        /\ result[c] = Raises(PyException("Timeout connecting to", <<DefaultHost, DefaultPort>>))

(***************************************************************************)
(* C6.  On every exit path of a call, close has been invoked on the        *)
(* call's socket exactly once.                                             *)
(***************************************************************************)
C6_ClosedExactlyOnce ==
    \A c \in Callers : Done(c) => sock[c].closes = 1

(***************************************************************************)
(* C7.  A failure of close does not change the outcome: a call that        *)
(* received a complete PASS response returns its return value also when    *)
(* a close of its socket raised.                                           *)
(***************************************************************************)
C7_CloseFailureKeepsOutcome ==
    \A c \in Callers : \A x \in ReturnDocs :
        (/\ Done(c)
         /\ resp[c] = PassDoc(x)
         /\ ~eof[c]
         /\ raised[c].at = "close" \/ swallowed[c]
         /\ raised[c].at \in {"none", "close"})
            => result[c] = Returns(ReturnValue(x))

(***************************************************************************)
(* C8.  The steps of a call are made in the order connect, write, read,    *)
(* decode, release: no step of the call comes after a later one, so the    *)
(* response is decoded before the socket is released.                      *)
(***************************************************************************)
C8_StepsInOrder ==
    \A c \in Callers : \A i \in 1..(Len(order[c]) - 1) :
        StepRank(order[c][i]) < StepRank(order[c][i + 1])

(***************************************************************************)
(* C9.  With several callers at once, under every interleaving: the        *)
(* buffer of a call holds only bytes sent on its own connection, in the    *)
(* order they were sent; a call that returns returns the return value of   *)
(* the response sent on its own connection; and a call none of whose own   *)
(* socket operations failed does return it, whatever happened to the       *)
(* other calls.                                                            *)
(***************************************************************************)
C9_NoCrossTalk ==
    \A c \in Callers :
        /\ IsPrefix(response_data[c], resp[c])
        /\ resp[c] = response_data[c] \o wire[c] \/ pc[c] \in {"off", "idle", "done"}
        /\ (Done(c) /\ result[c].kind = "return")
              => result[c] = Returns(ReturnValue(<<DigitOf(c)>>))
        /\ (Done(c) /\ raised[c].at \notin SocketSteps)
              => result[c] = Returns(ReturnValue(<<DigitOf(c)>>))

C9_Witness ==
    /\ \A c \in Callers : Done(c) /\ result[c] = Returns(JInt(c))
    /\ \A c \in Callers : pc[c] # "off"
    /\ Cardinality({result[c] : c \in Callers}) = NumCallers

(***************************************************************************)
(* C10.  A call makes one attempt: at most one connect and one write of    *)
(* the request, no step after a failed one, and the failure reported is    *)
(* the one made of the first exception raised.                             *)
(***************************************************************************)
C10_OneAttempt ==
    \A c \in Callers :
        /\ Count(order[c], "connect") <= 1
        /\ Count(order[c], "write") <= 1
        /\ Len(sent[c]) <= 1
        /\ raised[c].at = "connect" => order[c] = <<"connect", "release">>
        /\ raised[c].at = "write" => order[c] = <<"connect", "write", "release">>
        /\ raised[c].at = "read" => order[c] = <<"connect", "write", "read", "release">>
        /\ raised[c].at # "none"
              => Done(c) /\ result[c] = Raises(ExceptHandlers(raised[c].exc))

C10_Witness ==
    \E c \in Callers :
        /\ Done(c)
        /\ raised[c] = [exc |-> OSError("ECONNREFUSED"), at |-> "connect"]
        /\ order[c] = <<"connect", "release">>
        /\ sent[c] = <<>>
        /\ result[c] = Raises(PyException("Connection error", OSError("ECONNREFUSED")))

(***************************************************************************)
(* C11.  A call whose received and decoded response is a JSON object with  *)
(* a status other than "PASS", or with no status, and with no error field  *)
(* fails with the RemoteFailure carrying the placeholder "Unknown error".  *)
(***************************************************************************)
C11_UnknownErrorPlaceholder ==
    \A c \in Callers :
        (Done(c) /\ resp[c] \in {FailNoError, NoStatus} /\ raised[c].at = "decode")
            => /\ result[c].kind = "raise"
               /\ Classify(result[c].val) = "RemoteFailure"
               /\ result[c].val.detail = JStr(UnknownError)

(***************************************************************************)
(* C12.  A call of a facade method that reached its write has written      *)
(* once: one JSON document followed by one newline, the only newline of    *)
(* the write.  The document is the object with method "run_keyword", args  *)
(* [operation name, [the arguments in the order of declaration, a          *)
(* parameter left out taking its default]] and kwargs {}.  For             *)
(* ping_test("h1", "8.8.8.8") the bytes written are those of PingBytes.    *)
(***************************************************************************)
OperationName(method) ==
    CASE method = "connect_to_device" -> ConnectToDevice
      [] method = "execute_command" -> ExecuteCommand
      [] method = "get_ospf_neighbors" -> GetOSPFNeighbors
      [] method = "get_bgp_summary" -> GetBGPSummary
      [] method = "get_interface_status" -> GetInterfaceStatus
      [] method = "ping_test" -> PingTest
      [] method = "close_connection" -> CloseConnection

\* The defaults of the parameters the caller left out.
Omitted(call) ==
    CASE call.method = "ping_test" /\ Len(call.given) = 2 -> <<JStr(Default), JInt(5)>>
      [] call.method = "ping_test" /\ Len(call.given) = 3 -> <<JInt(5)>>
      [] call.method = "get_bgp_summary" /\ Len(call.given) = 1 -> <<JStr(Default)>>
      [] OTHER -> <<>>

ExpectedRequest(call) ==
    JDict((MethodKey :> JStr(RunKeywordMethod))
          @@ (ArgsKey :> JList(<<JStr(OperationName(call.method)),
                                JList(call.given \o Omitted(call))>>))
          @@ (KwargsKey :> JDict(EmptyDict)))

PingBytes ==
    <<"{", "\"", "m", "e", "t", "h", "o", "d", "\"", ":", " ", "\"", "r",
      "u", "n", "_", "k", "e", "y", "w", "o", "r", "d", "\"", ",", " ",
      "\"", "a", "r", "g", "s", "\"", ":", " ", "[", "\"", "P", "i",
      "n", "g", " ", "T", "e", "s", "t", "\"", ",", " ", "[", "\"",
      "h", "1", "\"", ",", " ", "\"", "8", ".", "8", ".", "8", ".",
      "8", "\"", ",", " ", "\"", "d", "e", "f", "a", "u", "l", "t",
      "\"", ",", " ", "5", "]", "]", ",", " ", "\"", "k", "w", "a",
      "r", "g", "s", "\"", ":", " ", "{", "}", "}", "\n">>

C12_FacadeRequest ==
    \A c \in Callers :
        /\ pc[c] \in {"recv", "close"} => sent[c] # <<>>
        /\ sent[c] # <<>> =>
              LET bytes == sent[c][1] IN
              /\ Len(sent[c]) = 1
              /\ {i \in 1..Len(bytes) : bytes[i] = Newline} = {Len(bytes)}
              /\ Loads(SubSeq(bytes, 1, Len(bytes) - 1)) = Returns(ExpectedRequest(op[c]))
              /\ op[c] = PingDefaults => bytes = PingBytes

C12_Witness ==
    \E c \in Callers :
        /\ pc[c] = "recv"
        /\ op[c] = Invoke("ping_test", <<H1, Target>>)
        /\ sent[c] = <<PingBytes>>

(***************************************************************************)
(* C13.  The read loop goes on only with a buffer that did not parse and   *)
(* is left, short of an empty recv, with one that did: while the call is   *)
(* reading, its buffer, if not empty, is not a complete JSON value; once   *)
(* the loop has ended by a parse the buffer is a complete JSON value, the  *)
(* bytes the server sent up to there, and whatever the server sent after   *)
(* them is still unread; the call that got that far was decided by         *)
(* decoding this buffer.                                                   *)
(***************************************************************************)
C13_StopsAtFirstParse ==
    \A c \in Callers :
        /\ (pc[c] = "recv" /\ response_data[c] # <<>>)
              => Loads(response_data[c]).kind # "return"
        /\ (pc[c] = "close" /\ ~eof[c])
              => /\ Loads(response_data[c]).kind = "return"
                 /\ resp[c] = response_data[c] \o wire[c]
        /\ (Done(c) /\ ~eof[c] /\ raised[c].at \in {"none", "decode"})
              => /\ IsPrefix(response_data[c], resp[c])
                 /\ Loads(response_data[c]).kind = "return"
                 /\ raised[c].at = "none" => result[c] = Decode(response_data[c])
                 /\ raised[c].at = "decode" => Raises(raised[c].exc) = Decode(response_data[c])

C13_Witness ==
    \E c \in Callers :
        /\ pc[c] = "close"
        /\ resp[c] = NumberDoc
        /\ response_data[c] = <<"5">>
        /\ wire[c] = <<"7">>

(***************************************************************************)
(* C14.  A call whose server sent a complete PASS response with return 5   *)
(* followed by a byte that is not whitespace, and none of whose socket     *)
(* operations failed, returns 5, however the bytes came in chunks.         *)
(***************************************************************************)
C14_TrailingBytesIgnored ==
    \A c \in Callers :
        (Done(c) /\ resp[c] = TrailingBytes /\ raised[c].at \notin SocketSteps)
            => result[c] = Returns(JInt(5))

(***************************************************************************)
(* C15.  A call whose server sent one valid JSON document, and none of     *)
(* whose socket operations failed, ends as it does when the document comes *)
(* in a single chunk, however the bytes came in chunks.                    *)
(***************************************************************************)
SingleChunkOutcome(bytes) ==
    LET decoded == Decode(bytes) IN
    IF decoded.kind = "raise" THEN Raises(ExceptHandlers(decoded.val)) ELSE decoded

C15_ChunkingIrrelevant ==
    \A c \in Callers :
        (Done(c) /\ Loads(resp[c]).kind = "return" /\ raised[c].at \notin SocketSteps)
            => result[c] = SingleChunkOutcome(resp[c])

(***************************************************************************)
(* C16.  Every call that has begun ends, given that each socket operation  *)
(* completes, fails or times out; and the read loop is left only by a      *)
(* parse of the buffer, by an empty recv, or by a timeout or socket error  *)
(* of recv.                                                                *)
(***************************************************************************)
InProgress(c) == pc[c] \in {"connect", "send", "recv", "close"}

LeavesLoopAsStated(c) ==
    (pc[c] = "recv" /\ pc'[c] # "recv")
        => \/ pc'[c] = "close" /\ eof'[c]
           \/ pc'[c] = "close" /\ Loads(response_data'[c]).kind = "return"
           \/ pc'[c] = "done" /\ raised'[c].at = "read"
                               /\ raised'[c].exc \in RecvFailures

C16_EveryCallEnds ==
    /\ \A c \in Callers : InProgress(c) ~> Done(c)
    /\ [][\A c \in Callers : LeavesLoopAsStated(c)]_vars

(***************************************************************************)
(* C17.  A call that has ended returned a value or raised one exception;   *)
(* it returned only if no step of it raised and the buffer its read loop   *)
(* ended with parses as a JSON object whose status is "PASS"; in every     *)
(* other case it raised.  A call that has not ended has no outcome.        *)
(***************************************************************************)
IsPassObject(bytes) ==
    LET parsed == Loads(bytes) IN
    /\ parsed.kind = "return"
    /\ parsed.val.t = "dict"
    /\ StatusKey \in DOMAIN parsed.val.v
    /\ parsed.val.v[StatusKey] = JStr(PASS)

C17_ReturnsOnlyOnPass ==
    \A c \in Callers :
        /\ ~Done(c) => result[c] = NoResult
        /\ Done(c) =>
              /\ result[c].kind \in {"return", "raise"}
              /\ result[c].kind = "return"
                    => IsPassObject(response_data[c]) /\ raised[c].at = "none"
              /\ ~IsPassObject(response_data[c])
                    => result[c].kind = "raise" /\ result[c].val.type = "Exception"

C17_Witness ==
    \E c \in Callers :
        /\ Done(c)
        /\ resp[c] = NumberDoc
        /\ response_data[c] = NumberDoc
        /\ raised[c].exc = AttributeError("int")
        /\ result[c].kind = "raise"

(***************************************************************************)
(* C18.  The object stays as __init__ made it, with host, port and timeout *)
(* and nothing else, through every call, returned or raised; and the       *)
(* outcome of a call, the first on the object or a later one, is decided   *)
(* by what happened in that call alone.                                    *)
(***************************************************************************)
OwnOutcome(c) ==
    IF raised[c].at = "none" THEN Decode(response_data[c])
    ELSE IF raised[c].exc = SocketTimeout
         THEN Raises(PyException("Timeout connecting to", <<DefaultHost, DefaultPort>>))
         ELSE Raises(PyException("Connection error", raised[c].exc))

C18_ObjectUnchanged ==
    /\ self = [host |-> DefaultHost, port |-> DefaultPort, timeout |-> DefaultTimeout]
    /\ \A c \in Callers : Done(c) => result[c] = OwnOutcome(c)

C18_Witness ==
    \E c \in Callers :
        /\ Done(c)
        /\ todo[c] < MaxCalls - 1
        /\ result[c] = Returns(JInt(5))

====
